---- MODULE Spec2Model ----
(***************************************************************************)
(* The resumable article archiver of sandbox/scrapers/article_scraper/     *)
(* dr_article_scraper.py (archive_articles), as a state machine.            *)
(*                                                                         *)
(* Strings are sequences of one-character strings.  The file system is the *)
(* progress file, the two error logs, the created folders and the saved    *)
(* files; a process run walks the URL list with its loop index.            *)
(***************************************************************************)
EXTENDS Integers, Sequences, FiniteSets, TLC

\* ------------------------------------------------------------------ bounds
\* Longest URL list read from the input file.
MaxUrls == 2
\* Number of times the program is started in one behaviour.
MaxRuns == 2

\* ------------------------------------------------------- program constants
max_retries == 3

\* ----------------------------------------------------------- string helpers
Max(S) == CHOOSE x \in S : \A y \in S : y <= x

\* 2 ** k
RECURSIVE Pow2(_)
Pow2(k) == IF k = 0 THEN 1 ELSE 2 * Pow2(k - 1)

\* Python s[a:b] for 0 <= a <= b <= len(s).
Slice(s, a, b) == SubSeq(s, a + 1, b)

StartsWith(s, p) == Len(s) >= Len(p) /\ SubSeq(s, 1, Len(p)) = p

\* str.rfind('/'): the 0-based index of the last '/', or -1.
RFindSlash(s) ==
    LET at == {k \in 0..(Len(s) - 1) : s[k + 1] = "/"}
    IN  IF at = {} THEN -1 ELSE Max(at)

\* str.replace(pat, ""): every non-overlapping occurrence, left to right.
RECURSIVE Remove(_, _)
Remove(s, pat) ==
    IF Len(s) < Len(pat) THEN s
    ELSE IF StartsWith(s, pat) THEN Remove(Slice(s, Len(pat), Len(s)), pat)
    ELSE <<Head(s)>> \o Remove(Tail(s), pat)

Https == <<"h", "t", "t", "p", "s", ":", "/", "/">>
Http == <<"h", "t", "t", "p", ":", "/", "/">>

Letters ==
    {"a", "b", "c", "d", "e", "f", "g", "h", "i", "j", "k", "l", "m",
     "n", "o", "p", "q", "r", "s", "t", "u", "v", "w", "x", "y", "z",
     "A", "B", "C", "D", "E", "F", "G", "H", "I", "J", "K", "L", "M",
     "N", "O", "P", "Q", "R", "S", "T", "U", "V", "W", "X", "Y", "Z"}
DigitSeq == <<"0", "1", "2", "3", "4", "5", "6", "7", "8", "9">>
DigitSet == {DigitSeq[k] : k \in 1..10}
\* The character class [a-zA-Z0-9_-].
SafeChars == Letters \cup DigitSet \cup {"_", "-"}

\* re.sub(r'[^a-zA-Z0-9_-]', '_', text)
Underscore(s) == [k \in 1..Len(s) |-> IF s[k] \in SafeChars THEN s[k] ELSE "_"]

\* str.strip('_')
RECURSIVE LStrip(_)
LStrip(s) == IF s # <<>> /\ Head(s) = "_" THEN LStrip(Tail(s)) ELSE s
RECURSIVE RStrip(_)
RStrip(s) ==
    IF s # <<>> /\ s[Len(s)] = "_" THEN RStrip(SubSeq(s, 1, Len(s) - 1)) ELSE s

\* Length of the match of r'https?://[^/]+/' at the start of s, 0 when none.
MatchOrigin(s) ==
    LET p == IF StartsWith(s, Https) THEN Len(Https)
             ELSE IF StartsWith(s, Http) THEN Len(Http) ELSE 0
        slashes == {k \in (p + 1)..Len(s) : s[k] = "/"}
    IN  IF p = 0 \/ slashes = {} THEN 0
        ELSE LET q == CHOOSE k \in slashes : \A j \in slashes : k <= j
             IN  IF q = p + 1 THEN 0 ELSE q

\* re.sub(r'https?://[^/]+/', '', text)
RECURSIVE StripOrigin(_)
StripOrigin(s) ==
    IF s = <<>> THEN s
    ELSE IF MatchOrigin(s) > 0 THEN StripOrigin(Slice(s, MatchOrigin(s), Len(s)))
    ELSE <<Head(s)>> \o StripOrigin(Tail(s))

sanitize_for_filename(text) == Underscore(StripOrigin(text))

sanitize_for_foldername(text) ==
    RStrip(LStrip(Underscore(Remove(Remove(text, Https), Http))))

\* str(i) for i >= 0.
RECURSIVE Str(_)
Str(n) == IF n < 10 THEN <<DigitSeq[n + 1]>>
          ELSE Str(n \div 10) \o <<DigitSeq[(n % 10) + 1]>>

\* f"{i:03d}"
Pad3(n) ==
    LET d == Str(n)
    IN  IF Len(d) >= 3 THEN d ELSE [k \in 1..(3 - Len(d)) |-> "0"] \o d

\* int(text) succeeds (the text holds decimal digits only).
IsInt(s) == s # <<>> /\ \A k \in 1..Len(s) : s[k] \in DigitSet
DigitVal(c) == (CHOOSE k \in 1..10 : DigitSeq[k] = c) - 1
RECURSIVE IntOf(_)
IntOf(s) == IF Len(s) = 1 THEN DigitVal(s[1])
            ELSE 10 * IntOf(SubSeq(s, 1, Len(s) - 1)) + DigitVal(s[Len(s)])

\* ---------------------------------------------------------- classification
\* The URL has a '/' that is not its final character.
HasLinkType(url) == RFindSlash(url) # -1 /\ RFindSlash(url) < Len(url) - 1
LinkType(url) == Slice(url, 0, RFindSlash(url) + 1)
UrlSlug(url) == Slice(url, RFindSlash(url) + 1, Len(url))

\* collections.Counter filled in list order: its keys in insertion order ...
RECURSIVE CounterKeys(_)
CounterKeys(list) ==
    IF list = <<>> THEN <<>>
    ELSE LET before == CounterKeys(SubSeq(list, 1, Len(list) - 1))
             url == list[Len(list)]
         IN  IF HasLinkType(url) /\ \A k \in 1..Len(before) : before[k] # LinkType(url)
             THEN Append(before, LinkType(url))
             ELSE before
\* ... and the count of a key.
LinkTypeCount(list, key) ==
    Cardinality({k \in 1..Len(list) : HasLinkType(list[k]) /\ LinkType(list[k]) = key})

\* A most_common() that puts a key before the keys of equal count.
RECURSIVE MostCommonUnstable(_, _)
MostCommonUnstable(list, keys) ==
    IF keys = <<>> THEN <<>>
    ELSE LET sorted == MostCommonUnstable(list, SubSeq(keys, 1, Len(keys) - 1))
             key == keys[Len(keys)]
             keep == {k \in 1..Len(sorted) :
                        LinkTypeCount(list, sorted[k]) > LinkTypeCount(list, key)}
             n == IF keep = {} THEN 0 ELSE Max(keep)
         IN  SubSeq(sorted, 1, n) \o <<key>> \o SubSeq(sorted, n + 1, Len(sorted))

\* Counter.most_common(): a stable sort of the items by descending count.
RECURSIVE MostCommonOf(_, _)
MostCommonOf(list, keys) ==
    IF keys = <<>> THEN <<>>
    ELSE LET sorted == MostCommonOf(list, SubSeq(keys, 1, Len(keys) - 1))
             key == keys[Len(keys)]
             keep == {k \in 1..Len(sorted) :
                        LinkTypeCount(list, sorted[k]) >= LinkTypeCount(list, key)}
             n == IF keep = {} THEN 0 ELSE Max(keep)
         IN  SubSeq(sorted, 1, n) \o <<key>> \o SubSeq(sorted, n + 1, Len(sorted))
MostCommon(list) == MostCommonOf(list, CounterKeys(list))

FolderName(rank, key) == Pad3(rank) \o <<"_">> \o sanitize_for_foldername(key)

\* A mapping built from the first URL of the list only.
FolderMappingFirstOnly(list) ==
    LET ranked == MostCommon(SubSeq(list, 1, 1))
    IN  {<<ranked[k], FolderName(k, ranked[k])>> : k \in 1..Len(ranked)}

\* folder_mapping: the pairs <<link type, folder name>>, ranks from 1.
FolderMapping(list) ==
    LET ranked == MostCommon(list)
    IN  {<<ranked[k], FolderName(k, ranked[k])>> : k \in 1..Len(ranked)}

\* folder_mapping.get(link_type): the folder name, or nothing (None).
None == <<>>
MappingGet(mapping, key) ==
    IF \E m \in mapping : m[1] = key
    THEN (CHOOSE m \in mapping : m[1] = key)[2]
    ELSE None

\* ------------------------------------------------------------ the inputs
\* "http://x/a/p"
UrlP == <<"h", "t", "t", "p", ":", "/", "/", "x", "/", "a", "/", "p">>
\* "http://x/b/q?" and "http://x/b/q_": two URLs with one target file.
UrlQ == <<"h", "t", "t", "p", ":", "/", "/", "x", "/", "b", "/", "q", "?">>
UrlR == <<"h", "t", "t", "p", ":", "/", "/", "x", "/", "b", "/", "q", "_">>
\* "http://x/a/": no trailing segment.
UrlM == <<"h", "t", "t", "p", ":", "/", "/", "x", "/", "a", "/">>
Blank == <<>>
Urls == {UrlP, UrlQ, UrlR, UrlM}
\* The pages that are gone: the server answers every GET of them with 404.
Gone == {UrlQ}
\* Input files with blank lines among the URLs.
BlankCases == {<<Blank>>, <<Blank, UrlP, Blank>>}

RECURSIVE SeqsUpTo(_, _)
SeqsUpTo(S, n) ==
    IF n = 0 THEN {<<>>}
    ELSE LET shorter == SeqsUpTo(S, n - 1)
         IN  shorter \cup {Append(s, x) : s \in {t \in shorter : Len(t) = n - 1}, x \in S}

\* [line.strip() for line in f if line.strip()]
RECURSIVE NonBlank(_)
NonBlank(lines) ==
    IF lines = <<>> THEN <<>>
    ELSE IF Head(lines) = Blank THEN NonBlank(Tail(lines))
    ELSE <<Head(lines)>> \o NonBlank(Tail(lines))

\* ----------------------------------------------------------------- state
VARIABLES
    input_file,       \* the URL file: [exists, lines]
    progress_file,    \* archive_progress.txt: [exists, text]
    error_404_file,   \* 404_errors.txt: its lines
    redirect_file,    \* redirect_errors.txt: its lines
    dirs,             \* the folders made under the working directory
    files,            \* the saved files: pairs <<path, content>>
    pc,               \* where the process is
    runs,             \* how many times the program was started
    start_index, i, attempt, processed, urls, folder_mapping,
    prompted,         \* the resume prompt was shown in this run
    resume_choice,    \* the operator's answer to it
    outcome,          \* per index, the outcome this run gave the URL
    cur,              \* what this run did for the URL it took last
    saves,            \* the texts this run wrote to the progress file
    raised,           \* an error other than a request error is in flight
    last_get,         \* the highest index this run sent a GET for, or -1
    at_start,         \* the files as this run found them
    gets,             \* how many GETs this run has sent
    ever              \* the indices given a non-fatal outcome by some run

fs == <<input_file, progress_file, error_404_file, redirect_file, dirs, files>>
locals == <<start_index, i, attempt, processed, urls, folder_mapping,
            prompted, resume_choice>>
history == <<outcome, cur, saves, raised, last_get, at_start, gets>>
vars == <<fs, pc, runs, locals, history, ever>>

base_output_dir == <<"a", "r", "c", "h", "i", "v", "e">>
Html == <<".", "h", "t", "m", "l">>
\* The response body of a GET of url, and a file opened but not yet written.
Body(url) == <<url>>
EmptyFile == <<>>

Stopped == {"idle", "halted", "complete", "exited", "crashed"}
Running == {"loop", "attempt", "write", "finally", "save"}

\* Nothing done yet for a URL: no answers got, no backoff sleeps taken, no
\* log appended to, no file written.
Fresh == [resps |-> <<>>, sleeps |-> <<>>, logs |-> <<>>, wrote |-> FALSE]

\* No process: nothing is held in memory and nothing is on record of a run.
NoProcess ==
    /\ start_index = 0
    /\ i = 0
    /\ attempt = 0
    /\ processed = FALSE
    /\ urls = <<>>
    /\ folder_mapping = {}
    /\ prompted = FALSE
    /\ resume_choice = ""
    /\ outcome = <<>>
    /\ cur = Fresh
    /\ saves = <<>>
    /\ raised = FALSE
    /\ last_get = -1
    /\ gets = 0
    /\ at_start = [progress |-> [exists |-> FALSE, text |-> <<>>], files |-> {},
                   error_404 |-> <<>>, redirect |-> <<>>]

Init ==
    /\ input_file \in
         {[exists |-> FALSE, lines |-> <<>>]}
         \cup {[exists |-> TRUE, lines |-> l] :
                 l \in SeqsUpTo(Urls, MaxUrls) \cup BlankCases}
    /\ progress_file = [exists |-> FALSE, text |-> <<>>]
    /\ error_404_file = <<>>
    /\ redirect_file = <<>>
    /\ dirs = {}
    /\ files = {}
    /\ pc = "idle"
    /\ runs = 0
    /\ NoProcess
    /\ ever = {}

\* ------------------------------------------------------------ file system
\* os.path.join of the segments, kept as the segments.
FolderPath(folder) == <<base_output_dir, folder>>
FilePath(folder, url) == <<base_output_dir, folder, sanitize_for_filename(UrlSlug(url)) \o Html>>
\* os.path.exists(file_path)
FileExists(path) == \E f \in files : f[1] = path
\* open(file_path, 'w') and f.write(text)
WithFile(path, content) == {f \in files : f[1] # path} \cup {<<path, content>>}

\* The progress file parses: int(f.read().strip()) does not raise.
ProgressReadable == progress_file.exists /\ IsInt(progress_file.text)
last_completed_index == IntOf(progress_file.text)

\* A resume that starts at the marker itself.
ResumeIndexStale == last_completed_index

\* Line 58: where a resumed run starts.
ResumeIndex == last_completed_index + 1

\* A start index that resumes whatever the answer to the prompt is.
StartIndexIgnoresAnswer(choice) == IF ProgressReadable THEN ResumeIndex ELSE 0

\* Lines 52-72: the start index, given the answer to the resume prompt (which
\* is asked only when the progress file parses).
StartIndex(choice) == IF ProgressReadable /\ choice = "y" THEN ResumeIndex ELSE 0

\* The target of urls[i], once the URL is known to be well formed and mapped.
Url == urls[i + 1]
TargetFolder == MappingGet(folder_mapping, LinkType(Url))
TargetFile == FilePath(TargetFolder, Url)

\* ----------------------------------------------------------------- actions
\* A start that makes the output directory before it reads the URL file.
StartRunMakesDir ==
    /\ pc \in Stopped
    /\ runs < MaxRuns
    /\ runs' = runs + 1
    /\ \E choice \in {"y", "n"} :
         /\ prompted' = ProgressReadable
         /\ resume_choice' = IF ProgressReadable THEN choice ELSE ""
         /\ start_index' = StartIndex(choice)
    /\ urls' = IF input_file.exists THEN NonBlank(input_file.lines) ELSE <<>>
    /\ outcome' = [j \in 0..(Len(urls') - 1) |-> "none"]
    /\ cur' = Fresh
    /\ saves' = <<>>
    /\ raised' = FALSE
    /\ last_get' = -1
    /\ gets' = 0
    /\ at_start' = [progress |-> progress_file, files |-> files,
                    error_404 |-> error_404_file, redirect |-> redirect_file]
    /\ attempt' = 0
    /\ processed' = FALSE
    /\ IF ~input_file.exists \/ urls' = <<>>
       THEN /\ pc' = "exited"
            /\ i' = 0
            /\ folder_mapping' = {}
            /\ dirs' = dirs \cup {<<base_output_dir>>}
       ELSE /\ pc' = "loop"
            /\ i' = start_index'
            /\ folder_mapping' = FolderMapping(urls')
            /\ dirs' = dirs \cup {<<base_output_dir>>}
    /\ UNCHANGED <<input_file, progress_file, error_404_file, redirect_file, files, ever>>

\* Lines 52-110: the resume logic, phase 1 and the set-up of phase 2.
StartRun ==
    /\ pc \in Stopped
    /\ runs < MaxRuns
    /\ runs' = runs + 1
    /\ \E choice \in {"y", "n"} :
         /\ prompted' = ProgressReadable
         /\ resume_choice' = IF ProgressReadable THEN choice ELSE ""
         /\ start_index' = StartIndex(choice)
    /\ urls' = IF input_file.exists THEN NonBlank(input_file.lines) ELSE <<>>
    /\ outcome' = [j \in 0..(Len(urls') - 1) |-> "none"]
    /\ cur' = Fresh
    /\ saves' = <<>>
    /\ raised' = FALSE
    /\ last_get' = -1
    /\ gets' = 0
    /\ at_start' = [progress |-> progress_file, files |-> files,
                    error_404 |-> error_404_file, redirect |-> redirect_file]
    /\ attempt' = 0
    /\ processed' = FALSE
    /\ IF ~input_file.exists \/ urls' = <<>>
       THEN /\ pc' = "exited"
            /\ i' = 0
            /\ folder_mapping' = {}
            /\ dirs' = dirs
       ELSE /\ pc' = "loop"
            /\ i' = start_index'
            /\ folder_mapping' = FolderMapping(urls')
            /\ dirs' = dirs \cup {<<base_output_dir>>}
    /\ UNCHANGED <<input_file, progress_file, error_404_file, redirect_file, files, ever>>

\* Lines 191-194: the loop ran out of indices.
Complete ==
    /\ pc = "loop"
    /\ i >= Len(urls)
    /\ pc' = "complete"
    /\ progress_file' = IF progress_file.exists
                        THEN [exists |-> FALSE, text |-> <<>>]
                        ELSE progress_file
    /\ UNCHANGED <<input_file, error_404_file, redirect_file, dirs, files, runs,
                   locals, outcome, cur, saves, raised, last_get, at_start, gets, ever>>

\* A decision that does not look for the target file.
SkipNoExistenceCheck ==
    IF ~HasLinkType(Url) THEN "SkippedMalformed"
    ELSE IF TargetFolder = None THEN "SkippedNoBucket"
    ELSE "none"

\* What lines 113-142 decide for urls[i] before any request.
Skip ==
    IF ~HasLinkType(Url) THEN "SkippedMalformed"
    ELSE IF TargetFolder = None THEN "SkippedNoBucket"
    ELSE IF FileExists(TargetFile) THEN "SkippedExisting"
    ELSE "none"

\* Lines 113-142: the next URL, up to the existence check.
BeginUrl ==
    /\ pc = "loop"
    /\ i < Len(urls)
    /\ attempt' = 0
    /\ processed' = (Skip # "none")
    /\ pc' = IF Skip # "none" THEN "finally" ELSE "attempt"
    /\ outcome' = [outcome EXCEPT ![i] = Skip]
    /\ cur' = Fresh
    /\ ever' = IF Skip # "none" THEN ever \cup {i} ELSE ever
    /\ dirs' = IF HasLinkType(Url) /\ TargetFolder # None
               THEN dirs \cup {FolderPath(TargetFolder)}
               ELSE dirs
    /\ UNCHANGED <<input_file, progress_file, error_404_file, redirect_file, files,
                   runs, start_index, i, urls, folder_mapping, prompted, resume_choice,
                   saves, raised, last_get, at_start, gets>>

\* Lines 144-152: a GET answered 2xx; the target file is opened for writing.
GetOk ==
    /\ pc = "attempt"
    /\ cur' = [cur EXCEPT !.resps = Append(@, "ok")]
    /\ Url \notin Gone
    /\ last_get' = i
    /\ gets' = gets + 1
    /\ files' = WithFile(TargetFile, EmptyFile)
    /\ pc' = "write"
    /\ UNCHANGED <<input_file, progress_file, error_404_file, redirect_file, dirs,
                   runs, locals, outcome, saves, raised, at_start, ever>>

\* A write after which the URL is not flagged processed.
WriteBodyUnflagged ==
    /\ pc = "write"
    /\ files' = WithFile(TargetFile, Body(Url))
    /\ cur' = [cur EXCEPT !.wrote = TRUE]
    /\ pc' = "finally"
    /\ UNCHANGED <<input_file, progress_file, error_404_file, redirect_file, dirs,
                   runs, locals, outcome, saves, raised, last_get, at_start, gets, ever>>

\* Lines 152-155: the body is written and the URL is flagged processed.
WriteBody ==
    /\ pc = "write"
    /\ files' = WithFile(TargetFile, Body(Url))
    /\ processed' = TRUE
    /\ cur' = [cur EXCEPT !.wrote = TRUE]
    /\ outcome' = [outcome EXCEPT ![i] = "Saved"]
    /\ ever' = ever \cup {i}
    /\ pc' = "finally"
    /\ UNCHANGED <<input_file, progress_file, error_404_file, redirect_file, dirs,
                   runs, start_index, i, attempt, urls, folder_mapping, prompted,
                   resume_choice, saves, raised, last_get, at_start, gets>>

\* A redirect log that is opened for writing, not for appending.
GetRedirectRewrites ==
    /\ pc = "attempt"
    /\ redirect_file' = <<Url>>
    /\ processed' = TRUE
    /\ cur' = [cur EXCEPT !.resps = Append(@, "redirect"),
                          !.logs = Append(@, "redirect")]
    /\ outcome' = [outcome EXCEPT ![i] = "RedirectLoop"]
    /\ Url \notin Gone
    /\ last_get' = i
    /\ gets' = gets + 1
    /\ ever' = ever \cup {i}
    /\ pc' = "finally"
    /\ UNCHANGED <<input_file, progress_file, error_404_file, dirs, files,
                   runs, start_index, i, attempt, urls, folder_mapping, prompted,
                   resume_choice, saves, raised, at_start>>

\* A redirect loop that is logged and flagged but does not leave the attempt loop.
GetRedirectNoBreak ==
    /\ pc = "attempt"
    /\ redirect_file' = Append(redirect_file, Url)
    /\ processed' = TRUE
    /\ cur' = [cur EXCEPT !.resps = Append(@, "redirect"),
                          !.logs = Append(@, "redirect")]
    /\ outcome' = [outcome EXCEPT ![i] = "RedirectLoop"]
    /\ Url \notin Gone
    /\ last_get' = i
    /\ gets' = gets + 1
    /\ ever' = ever \cup {i}
    /\ attempt' = attempt + 1
    /\ pc' = IF attempt + 1 < max_retries THEN "attempt" ELSE "finally"
    /\ UNCHANGED <<input_file, progress_file, error_404_file, dirs, files,
                   runs, start_index, i, urls, folder_mapping, prompted,
                   resume_choice, saves, raised, at_start>>

\* Lines 157-162: the GET ran into a redirect loop.
GetRedirect ==
    /\ pc = "attempt"
    /\ redirect_file' = Append(redirect_file, Url)
    /\ processed' = TRUE
    /\ cur' = [cur EXCEPT !.resps = Append(@, "redirect"),
                          !.logs = Append(@, "redirect")]
    /\ outcome' = [outcome EXCEPT ![i] = "RedirectLoop"]
    /\ Url \notin Gone
    /\ last_get' = i
    /\ gets' = gets + 1
    /\ ever' = ever \cup {i}
    /\ pc' = "finally"
    /\ UNCHANGED <<input_file, progress_file, error_404_file, dirs, files,
                   runs, start_index, i, attempt, urls, folder_mapping, prompted,
                   resume_choice, saves, raised, at_start>>

\* A 404 that is written to the redirect log.
Get404Misfiled ==
    /\ pc = "attempt"
    /\ redirect_file' = Append(redirect_file, Url)
    /\ last_get' = i
    /\ gets' = gets + 1
    /\ ever' = ever \cup {i}
    /\ processed' = TRUE
    /\ cur' = [cur EXCEPT !.resps = Append(@, "404"),
                          !.logs = Append(@, "redirect")]
    /\ outcome' = [outcome EXCEPT ![i] = "NotFound"]
    /\ pc' = "finally"
    /\ UNCHANGED <<input_file, progress_file, error_404_file, dirs, files,
                   runs, start_index, i, attempt, urls, folder_mapping, prompted,
                   resume_choice, saves, raised, at_start>>

\* A 404 that is logged and flagged but does not leave the attempt loop.
Get404NoBreak ==
    /\ pc = "attempt"
    /\ error_404_file' = Append(error_404_file, Url)
    /\ last_get' = i
    /\ gets' = gets + 1
    /\ ever' = ever \cup {i}
    /\ processed' = TRUE
    /\ cur' = [cur EXCEPT !.resps = Append(@, "404"),
                          !.logs = Append(@, "404")]
    /\ outcome' = [outcome EXCEPT ![i] = "NotFound"]
    /\ attempt' = attempt + 1
    /\ pc' = IF attempt + 1 < max_retries THEN "attempt" ELSE "finally"
    /\ UNCHANGED <<input_file, progress_file, redirect_file, dirs, files,
                   runs, start_index, i, urls, folder_mapping, prompted,
                   resume_choice, saves, raised, at_start>>

\* Lines 164-171: the GET was answered 404.
Get404 ==
    /\ pc = "attempt"
    /\ error_404_file' = Append(error_404_file, Url)
    /\ last_get' = i
    /\ gets' = gets + 1
    /\ ever' = ever \cup {i}
    /\ processed' = TRUE
    /\ cur' = [cur EXCEPT !.resps = Append(@, "404"),
                          !.logs = Append(@, "404")]
    /\ outcome' = [outcome EXCEPT ![i] = "NotFound"]
    /\ pc' = "finally"
    /\ UNCHANGED <<input_file, progress_file, redirect_file, dirs, files,
                   runs, start_index, i, attempt, urls, folder_mapping, prompted,
                   resume_choice, saves, raised, at_start>>

\* A backoff taken after every failed attempt, the last one too.
BackoffAlways(k) == <<Pow2(k)>>

\* The sleeps of a retryable failure on this attempt (lines 174-175, 179-180).
Backoff(k) == IF k < max_retries - 1 THEN <<Pow2(k)>> ELSE <<>>

\* A retry that allows one attempt more.
RetryOnceMore ==
    /\ pc = "attempt"
    /\ cur' = [cur EXCEPT !.resps = Append(@, "retry"),
                          !.sleeps = @ \o Backoff(attempt)]
    /\ Url \notin Gone
    /\ last_get' = i
    /\ gets' = gets + 1
    /\ attempt' = attempt + 1
    /\ pc' = IF attempt + 1 < max_retries + 1 THEN "attempt" ELSE "finally"
    /\ UNCHANGED <<fs, runs, start_index, i, processed, urls, folder_mapping,
                   prompted, resume_choice, outcome, saves, raised, at_start, ever>>

\* What follows a retryable failure: the next attempt, or the end of the
\* attempt loop of line 144.
Retry ==
    /\ pc = "attempt"
    /\ cur' = [cur EXCEPT !.resps = Append(@, "retry"),
                          !.sleeps = @ \o Backoff(attempt)]
    /\ Url \notin Gone
    /\ last_get' = i
    /\ gets' = gets + 1
    /\ attempt' = attempt + 1
    /\ pc' = IF attempt + 1 < max_retries THEN "attempt" ELSE "finally"
    /\ UNCHANGED <<fs, runs, start_index, i, processed, urls, folder_mapping,
                   prompted, resume_choice, outcome, saves, raised, at_start, ever>>

\* Lines 172-175: an HTTP error status other than 404.
GetHttpError == Retry

\* Lines 177-180: any other request error (connection, timeout).
GetNetworkError == Retry

\* Lines 182-184: the URL is flagged processed; the progress file is opened
\* for writing, which empties it.
OpenProgress ==
    /\ pc = "finally"
    /\ processed
    /\ progress_file' = [exists |-> TRUE, text |-> <<>>]
    /\ pc' = "save"
    /\ UNCHANGED <<input_file, error_404_file, redirect_file, dirs, files, runs,
                   locals, history, ever>>

\* A save that writes the index of the URL to come.
SaveProgressNext ==
    /\ pc = "save"
    /\ progress_file' = [exists |-> TRUE, text |-> Str(i + 1)]
    /\ saves' = Append(saves, Str(i + 1))
    /\ i' = i + 1
    /\ pc' = "loop"
    /\ UNCHANGED <<input_file, error_404_file, redirect_file, dirs, files, runs,
                   start_index, attempt, processed, urls, folder_mapping, prompted,
                   resume_choice, outcome, cur, raised, last_get, at_start, gets, ever>>

\* A save that writes the index the run started at.
SaveProgressStart ==
    /\ pc = "save"
    /\ progress_file' = [exists |-> TRUE, text |-> Str(start_index)]
    /\ saves' = Append(saves, Str(start_index))
    /\ i' = i + 1
    /\ pc' = "loop"
    /\ UNCHANGED <<input_file, error_404_file, redirect_file, dirs, files, runs,
                   start_index, attempt, processed, urls, folder_mapping, prompted,
                   resume_choice, outcome, cur, raised, last_get, at_start, gets, ever>>

\* Lines 185-186 and the step of the loop: the index is written, the
\* politeness delay is taken and the loop goes on.
SaveProgress ==
    /\ pc = "save"
    /\ progress_file' = [exists |-> TRUE, text |-> Str(i)]
    /\ saves' = Append(saves, Str(i))
    /\ i' = i + 1
    /\ pc' = "loop"
    /\ UNCHANGED <<input_file, error_404_file, redirect_file, dirs, files, runs,
                   start_index, attempt, processed, urls, folder_mapping, prompted,
                   resume_choice, outcome, cur, raised, last_get, at_start, gets, ever>>

\* A failed URL after which the progress file is removed as on completion.
HaltClears ==
    /\ pc = "finally"
    /\ ~processed
    /\ outcome' = [outcome EXCEPT ![i] = IF raised THEN "Aborted" ELSE "FatalFailure"]
    /\ raised' = FALSE
    /\ pc' = "halted"
    /\ progress_file' = [exists |-> FALSE, text |-> <<>>]
    /\ UNCHANGED <<input_file, error_404_file, redirect_file, dirs, files, runs,
                   locals, cur, saves, last_get, at_start, gets, ever>>

\* A failed URL that does not end the loop: the next index is taken.
HaltContinues ==
    /\ pc = "finally"
    /\ ~processed
    /\ outcome' = [outcome EXCEPT ![i] = IF raised THEN "Aborted" ELSE "FatalFailure"]
    /\ raised' = FALSE
    /\ i' = i + 1
    /\ pc' = "loop"
    /\ UNCHANGED <<fs, runs, start_index, attempt, processed, urls, folder_mapping,
                   prompted, resume_choice, cur, saves, last_get, at_start, gets, ever>>

\* A finally block that lets an error in flight go on: the process dies of it.
HaltPropagates ==
    /\ pc = "finally"
    /\ ~processed
    /\ outcome' = [outcome EXCEPT ![i] = IF raised THEN "Aborted" ELSE "FatalFailure"]
    /\ raised' = raised
    /\ pc' = IF raised THEN "crashed" ELSE "halted"
    /\ UNCHANGED <<fs, runs, locals, cur, saves, last_get, at_start, gets, ever>>

\* Lines 187-189: the URL is not flagged processed; the break leaves the loop
\* (and drops an error in flight) without reaching the else of line 191.
Halt ==
    /\ pc = "finally"
    /\ ~processed
    /\ outcome' = [outcome EXCEPT ![i] = IF raised THEN "Aborted" ELSE "FatalFailure"]
    /\ raised' = FALSE
    /\ pc' = "halted"
    /\ UNCHANGED <<fs, runs, locals, cur, saves, last_get, at_start, gets, ever>>

Next ==
    \/ StartRun
    \/ Complete
    \/ BeginUrl
    \/ GetOk
    \/ WriteBody
    \/ GetRedirect
    \/ Get404
    \/ GetHttpError
    \/ GetNetworkError
    \/ OpenProgress
    \/ SaveProgress
    \/ Halt

Spec == Init /\ [][Next]_vars

\* ------------------------------------------------------------------- stops
\* The process is stopped from outside (killed, power loss) at any point:
\* what it held in memory is lost, the files stay as they are.
Crash ==
    /\ pc \in Running
    /\ pc' = "crashed"
    /\ start_index' = 0
    /\ i' = 0
    /\ attempt' = 0
    /\ processed' = FALSE
    /\ urls' = <<>>
    /\ folder_mapping' = {}
    /\ prompted' = FALSE
    /\ resume_choice' = ""
    /\ outcome' = <<>>
    /\ cur' = Fresh
    /\ saves' = <<>>
    /\ raised' = FALSE
    /\ last_get' = -1
    /\ gets' = 0
    /\ at_start' = [progress |-> [exists |-> FALSE, text |-> <<>>], files |-> {},
                    error_404 |-> <<>>, redirect |-> <<>>]
    /\ UNCHANGED <<fs, runs, ever>>

NextStop ==
    \/ Next
    \/ Crash

SpecStop == Init /\ [][NextStop]_vars

\* ------------------------------------------------------------------ errors
\* An error that is no request error, raised inside the try of line 117:
\* it leaves for the finally of line 182 with the URL not flagged processed.
Raise ==
    /\ processed' = FALSE
    /\ raised' = TRUE
    /\ pc' = "finally"
    /\ UNCHANGED <<fs, runs, start_index, i, attempt, urls, folder_mapping,
                   prompted, resume_choice, outcome, saves, last_get, at_start, gets, ever>>

\* Line 133: os.makedirs fails for the folder of urls[i].
FolderError ==
    /\ pc = "loop"
    /\ i < Len(urls)
    /\ HasLinkType(Url)
    /\ TargetFolder # None
    /\ cur' = Fresh
    /\ Raise

\* Lines 148 and 175: the operator interrupts the request or the backoff.
Interrupt ==
    /\ pc = "attempt"
    /\ cur' = cur
    /\ Raise

\* Line 152: writing the body fails; the opened file stays as it is.
WriteError ==
    /\ pc = "write"
    /\ cur' = cur
    /\ Raise

NextError ==
    \/ Next
    \/ FolderError
    \/ Interrupt
    \/ WriteError

SpecError == Init /\ [][NextError]_vars

\* ------------------------------------------------------------ phase 1
\* Phase 1 on its own, over longer lists and a third link type.
\* Longest URL list that is classified.
MaxList == 3
\* "c/s"
UrlS == <<"c", "/", "s">>
ClassifyUrls == Urls \cup {UrlS}

InitClassify ==
    /\ input_file \in
         {[exists |-> TRUE, lines |-> l] : l \in SeqsUpTo(ClassifyUrls, MaxList)}
    /\ progress_file = [exists |-> FALSE, text |-> <<>>]
    /\ error_404_file = <<>>
    /\ redirect_file = <<>>
    /\ dirs = {}
    /\ files = {}
    /\ pc = "idle"
    /\ runs = 0
    /\ NoProcess
    /\ ever = {}

\* Lines 77-100: the list is read, the link types are counted and ranked.
Classify ==
    /\ pc = "idle"
    /\ NonBlank(input_file.lines) # <<>>
    /\ urls' = NonBlank(input_file.lines)
    /\ folder_mapping' = FolderMapping(urls')
    /\ pc' = "classified"
    /\ UNCHANGED <<fs, runs, start_index, i, attempt, processed, prompted,
                   resume_choice, history, ever>>

SpecClassify == InitClassify /\ [][Classify]_vars

\* ------------------------------------------------------------ the URL file
\* Between two runs the URL file is taken away or emptied by its owner.
LoseInput ==
    /\ pc \in Stopped
    /\ input_file.exists
    /\ NonBlank(input_file.lines) # <<>>
    /\ input_file' \in {[exists |-> FALSE, lines |-> <<>>],
                        [exists |-> TRUE, lines |-> <<Blank>>]}
    /\ UNCHANGED <<progress_file, error_404_file, redirect_file, dirs, files,
                   pc, runs, locals, history, ever>>

NextInput ==
    \/ Next
    \/ LoseInput

SpecInput == Init /\ [][NextInput]_vars

\* ------------------------------------------------------------- termination
\* A step of a run: every statement of the loop ends, and every GET returns
\* an answer or fails (line 148 has a timeout).
RunStep ==
    \/ Complete
    \/ BeginUrl
    \/ GetOk
    \/ WriteBody
    \/ GetRedirect
    \/ Get404
    \/ GetHttpError
    \/ GetNetworkError
    \/ OpenProgress
    \/ SaveProgress
    \/ Halt

SpecLive == Init /\ [][Next]_vars /\ WF_vars(RunStep)

\* ============================================================== properties
NonFatal == {"Saved", "SkippedExisting", "SkippedMalformed", "SkippedNoBucket",
             "NotFound", "RedirectLoop"}
Exhausted == <<"retry", "retry", "retry">>
\* The progress file this run found or wrote is gone.
Cleared == ~progress_file.exists /\ (at_start.progress.exists \/ saves # <<>>)
\* The progress file holds what this run wrote last, or what the run found.
ProgressAsLeft ==
    progress_file = IF saves = <<>> THEN at_start.progress
                    ELSE [exists |-> TRUE, text |-> saves[Len(saves)]]

\* C1: when the URL at index j has used up its attempts on retryable errors,
\* the run is halted at j: no GET was sent for a later index, no later URL was
\* taken, j was not written to the progress file, and the progress file was
\* not removed (it holds what it held before URL j).
C1_FatalHalts ==
    \A j \in DOMAIN outcome :
        outcome[j] = "FatalFailure" =>
            /\ pc = "halted"
            /\ i = j
            /\ cur.resps = Exhausted
            /\ last_get <= j
            /\ \A k \in DOMAIN outcome : k > j => outcome[k] = "none"
            /\ \A n \in 1..Len(saves) : saves[n] # Str(j)
            /\ ~Cleared
            /\ ProgressAsLeft

\* A run halted at index 0 of two URLs, with a progress file of an earlier run.
C1_Witness ==
    /\ pc = "halted"
    /\ Len(urls) = 2
    /\ i = 0
    /\ outcome[0] = "FatalFailure"
    /\ progress_file.exists

\* C2 as stated: after a fatal failure at index j the progress file holds
\* j - 1, or is absent when j = 0 (so that an accepted resume starts at j).
C2_Original ==
    \A j \in DOMAIN outcome :
        outcome[j] = "FatalFailure" =>
            IF j = 0 THEN ~progress_file.exists
            ELSE ProgressReadable /\ last_completed_index = j - 1

\* What the progress file holds after a fatal failure at index j.
C2_MarkerAfterFatal ==
    \A j \in DOMAIN outcome :
        outcome[j] = "FatalFailure" =>
            /\ j > 0 => ProgressReadable /\ last_completed_index = j - 1
            /\ (j = 0 /\ ~prompted) => ~progress_file.exists
            /\ (j = 0 /\ prompted) =>
                   /\ resume_choice = "n"
                   /\ ProgressReadable
                   /\ progress_file = at_start.progress

\* Where the run after a fatal failure at index i starts when the resume is
\* accepted.
C2_NextStart ==
    (/\ pc = "halted"
     /\ outcome[i] = "FatalFailure"
     /\ runs' = runs + 1
     /\ resume_choice' = "y")
        => start_index' = IF i = 0 THEN last_completed_index + 1 ELSE i

\* C2, amended: after a fatal failure at index j > 0 the progress file holds
\* j - 1 and the next run that accepts the resume starts at j; after a fatal
\* failure at index 0 of a run that found no progress file, none exists; after
\* a fatal failure at index 0 of a run restarted from 0 on a declined resume,
\* the older marker m is still in the file and the next run that accepts the
\* resume starts at m + 1.
C2_Amended == []C2_MarkerAfterFatal /\ [][C2_NextStart]_vars

\* A resumed run (from index 1) that failed at the index it resumed at.
C2_Witness ==
    /\ pc = "halted"
    /\ runs = 2
    /\ resume_choice = "y"
    /\ start_index = 1
    /\ i = 1
    /\ outcome[1] = "FatalFailure"

\* C3: the texts a run writes to the progress file are its start index, the
\* next index, and so on, one for each URL that reached a non-fatal outcome,
\* each written before the next URL is taken: the loop index is the start
\* index plus the number of writes, every index below it (from the start
\* index) has a non-fatal outcome, no URL above it was taken or requested, and
\* the only non-fatal outcome not yet written is the one of the URL in hand.
C3_SavesInOrder ==
    /\ pc \in Running \cup {"halted", "complete"} => i = start_index + Len(saves)
    /\ \A n \in 1..Len(saves) :
          /\ saves[n] = Str(start_index + n - 1)
          /\ outcome[start_index + n - 1] \in NonFatal
    /\ \A j \in DOMAIN outcome :
          /\ outcome[j] \in NonFatal =>
                \/ j \in start_index..(i - 1)
                \/ j = i /\ pc \in {"finally", "save"} /\ processed
          /\ j > i => outcome[j] = "none"
    /\ last_get <= i
    /\ (pc = "loop" /\ saves # <<>>) =>
          progress_file = [exists |-> TRUE, text |-> Str(i - 1)]

\* Two URLs processed and written, one after a 404 and one saved.
C3_Witness ==
    /\ Len(saves) = 2
    /\ outcome[0] = "NotFound"
    /\ outcome[1] = "Saved"
    /\ pc = "loop"

\* C4 as stated: the progress file is removed only when every URL of the list
\* has reached a (non-fatal) outcome in this same run.
C4_Original ==
    Cleared => \A j \in DOMAIN outcome : outcome[j] \in NonFatal

\* C4, amended: the progress file is removed only on the natural end of the
\* loop, when every URL from the start index of the run to the end of the
\* list has reached a non-fatal outcome in this run (the URLs below the start
\* index of a resumed run have no outcome in it, and a start index at or
\* beyond the end leaves none to process); never after an early halt.
C4_Amended ==
    Cleared =>
        /\ pc = "complete"
        /\ i >= Len(urls)
        /\ \A j \in DOMAIN outcome :
              /\ j >= start_index => outcome[j] \in NonFatal
              /\ j < start_index => outcome[j] = "none"

\* A resumed run over two URLs that started at index 1 and completed.
C4_Witness ==
    /\ pc = "complete"
    /\ Cleared
    /\ Len(urls) = 2
    /\ start_index = 1
    /\ outcome[1] = "Saved"

Last(s) == s[Len(s)]
Min(a, b) == IF a < b THEN a ELSE b
Retries(resps) == Cardinality({k \in 1..Len(resps) : resps[k] = "retry"})

\* C5: at most 3 GETs are sent for the URL in hand, a further GET only after
\* a retryable failure; the backoffs taken are 2^0 after the first and 2^1
\* after the second retryable failure and none after the third; after a first
\* or second retryable failure the next attempt is due, after the third the
\* URL is not flagged processed and its outcome is FatalFailure.
C5_AttemptsAndBackoff ==
    /\ Len(cur.resps) <= 3
    /\ \A k \in 1..(Len(cur.resps) - 1) : cur.resps[k] = "retry"
    /\ cur.sleeps = [k \in 1..Min(Retries(cur.resps), 2) |-> Pow2(k - 1)]
    /\ (cur.resps # <<>> /\ Last(cur.resps) = "retry" /\ Len(cur.resps) < 3) =>
          /\ pc = "attempt"
          /\ attempt = Len(cur.resps)
    /\ cur.resps = Exhausted =>
          /\ pc \in {"finally", "halted"}
          /\ ~processed
          /\ pc = "halted" => outcome[i] = "FatalFailure"

\* Three retryable failures in a row, and the run halted.
C5_Witness ==
    /\ cur.resps = Exhausted
    /\ cur.sleeps = <<1, 2>>
    /\ pc = "halted"

\* The index of the URL that cur is about, and that URL.
CurIndex == IF pc \in {"loop", "complete"} THEN i - 1 ELSE i
CurUrl == urls[CurIndex + 1]
LogOf(name) == IF name = "404" THEN error_404_file ELSE redirect_file

\* C6: when the last answer for the URL in hand is a 404 or a redirect loop,
\* no further attempt follows (the process is past the attempt loop and not
\* halted), the URL is the last line of the matching log and was appended
\* once and to that log only, no file was written for it, it is flagged
\* processed, and once the loop has moved on the progress file holds its index.
C6_PermanentFailure ==
    (cur.resps # <<>> /\ Last(cur.resps) \in {"404", "redirect"}) =>
        /\ pc \in {"finally", "save", "loop", "complete"}
        /\ cur.logs = <<Last(cur.resps)>>
        /\ LogOf(Last(cur.resps)) # <<>>
        /\ Last(LogOf(Last(cur.resps))) = CurUrl
        /\ ~cur.wrote
        /\ ~FileExists(FilePath(MappingGet(folder_mapping, LinkType(CurUrl)), CurUrl))
        /\ outcome[CurIndex] = (IF Last(cur.resps) = "404" THEN "NotFound" ELSE "RedirectLoop")
        /\ pc = "finally" => processed
        /\ pc \in {"loop", "complete"} =>
              /\ saves # <<>>
              /\ Last(saves) = Str(CurIndex)
        /\ pc = "loop" => progress_file = [exists |-> TRUE, text |-> Str(CurIndex)]

\* A 404 on the second attempt of the first of two URLs, and the loop moved on.
C6_Witness ==
    /\ cur.resps = <<"retry", "404">>
    /\ pc = "loop"
    /\ i = 1
    /\ Len(urls) = 2

\* The URL list of the input file, the same in every run, and its targets.
InputUrls == NonBlank(input_file.lines)
NoDuplicates(list) == \A a, b \in 1..Len(list) : list[a] = list[b] => a = b
Count404(url) == Cardinality({k \in 1..Len(error_404_file) : error_404_file[k] = url})
InputTarget(url) == FilePath(MappingGet(FolderMapping(InputUrls), LinkType(url)), url)
\* Some run has gone past index j: the progress file says so, or this run
\* gave the URL a non-fatal outcome.
Passed(j) ==
    \/ ProgressReadable /\ last_completed_index >= j
    \/ j \in DOMAIN outcome /\ outcome[j] \in NonFatal

\* C7 as stated, for lists without duplicate lines: a URL that is answered
\* 404 on every request has no saved file and is in the 404 log exactly once
\* once a run has gone past it (and never more than once).
C7_Original ==
    NoDuplicates(InputUrls) =>
        \A j \in 0..(Len(InputUrls) - 1) :
            LET url == InputUrls[j + 1]
            IN  url \in Gone =>
                    /\ \A f \in files : f[2] # Body(url)
                    /\ Count404(url) <= 1
                    /\ (Passed(j) /\ ~FileExists(InputTarget(url))) => Count404(url) = 1

\* C7, amended: a URL that is answered 404 on every request never has its
\* body saved, and once a run has gone past it, it is in the 404 log at least
\* once, unless a file saved for another URL sits at its target path (then it
\* is skipped without a request).  It is not there exactly once: every run
\* that requests it again appends it again.
C7_Amended ==
    \A j \in 0..(Len(InputUrls) - 1) :
        LET url == InputUrls[j + 1]
        IN  url \in Gone =>
                /\ \A f \in files : f[2] # Body(url)
                /\ (Passed(j) /\ ~FileExists(InputTarget(url))) => Count404(url) >= 1

\* The gone URL, once in the list, twice in the 404 log after a completed run.
C7_Witness ==
    /\ NoDuplicates(InputUrls)
    /\ Count404(UrlQ) = 2
    /\ pc = "complete"

\* C8: when the URL in hand got two retryable failures and then a 2xx answer,
\* the process goes on to write the file and is never halted; once written,
\* the target file holds the body, the outcome is Saved, the URL is flagged
\* processed and nothing was appended to a log for it; once the loop has
\* moved on, the progress file holds its index.
C8_ThirdAttemptSaves ==
    cur.resps = <<"retry", "retry", "ok">> =>
        /\ pc \in {"write", "finally", "save", "loop", "complete"}
        /\ cur.logs = <<>>
        /\ cur.sleeps = <<1, 2>>
        /\ pc # "write" =>
              /\ cur.wrote
              /\ outcome[CurIndex] = "Saved"
              /\ <<FilePath(MappingGet(folder_mapping, LinkType(CurUrl)), CurUrl),
                   Body(CurUrl)>> \in files
        /\ pc = "finally" => processed
        /\ pc \in {"loop", "complete"} =>
              /\ saves # <<>>
              /\ Last(saves) = Str(CurIndex)
        /\ pc = "loop" => progress_file = [exists |-> TRUE, text |-> Str(CurIndex)]

\* Saved on the third attempt, the first of two URLs, and the loop moved on.
C8_Witness ==
    /\ cur.resps = <<"retry", "retry", "ok">>
    /\ pc = "loop"
    /\ i = 1
    /\ Len(urls) = 2
    /\ error_404_file = <<>>
    /\ redirect_file = <<>>

ExistedAtStart(path) == \E f \in at_start.files : f[1] = path
TargetAt(j) == FilePath(MappingGet(folder_mapping, LinkType(urls[j + 1])), urls[j + 1])
\* The run has taken the URL at index j.
Taken(j) ==
    \/ j \in start_index..(i - 1)
    \/ j = i /\ pc \in {"attempt", "write", "finally", "save", "halted"}
\* The target of every URL of the list was there when the run started.
AllExistedAtStart ==
    \A j \in DOMAIN outcome : HasLinkType(urls[j + 1]) /\ ExistedAtStart(TargetAt(j))

\* C9: a URL whose target file is there when it is taken (from before the
\* run, or saved earlier in the run for the same target) gets the outcome
\* SkippedExisting and no GET, and no file that was there is changed; a run
\* from index 0 that found a file for every URL is never halted, and when it
\* has completed it has sent no GET, left the files and both logs as they
\* were, and the progress file is absent.
C9_SkipExisting ==
    /\ at_start.files \subseteq files
    /\ \A j \in DOMAIN outcome :
          /\ (Taken(j) /\ HasLinkType(urls[j + 1])) =>
                (outcome[j] = "SkippedExisting") =
                    \/ ExistedAtStart(TargetAt(j))
                    \/ \E k \in start_index..(j - 1) :
                          /\ HasLinkType(urls[k + 1])
                          /\ TargetAt(k) = TargetAt(j)
                          /\ outcome[k] = "Saved"
          /\ outcome[j] = "SkippedExisting" =>
                /\ FileExists(TargetAt(j))
                /\ last_get # j
                /\ j = CurIndex => cur = Fresh
    /\ (start_index = 0 /\ urls # <<>> /\ AllExistedAtStart) =>
          /\ pc # "halted"
          /\ last_get = -1
          /\ pc = "complete" =>
                /\ files = at_start.files
                /\ error_404_file = at_start.error_404
                /\ redirect_file = at_start.redirect
                /\ ~progress_file.exists

\* A second run over two URLs whose files the first run saved, completed.
C9_Witness ==
    /\ pc = "complete"
    /\ start_index = 0
    /\ Len(urls) = 2
    /\ AllExistedAtStart
    /\ outcome = [j \in 0..1 |-> "SkippedExisting"]

\* C10: a run starts at marker + 1 when the progress file it finds parses and
\* the operator accepts the resume, at 0 when the operator declines, and at 0
\* without a prompt when the file is absent or does not parse; a run ends
\* before the loop only when the input file is missing or has no URL.
C10_StartIndex ==
    (runs >= 1 /\ pc # "crashed") =>
        /\ prompted = (at_start.progress.exists /\ IsInt(at_start.progress.text))
        /\ prompted =>
              /\ resume_choice \in {"y", "n"}
              /\ start_index = IF resume_choice = "y"
                               THEN IntOf(at_start.progress.text) + 1
                               ELSE 0
        /\ ~prompted => (resume_choice = "" /\ start_index = 0)
        /\ (pc = "exited") = (~input_file.exists \/ InputUrls = <<>>)

\* A run that found a progress file that does not parse, and is at work.
C10_Witness ==
    /\ runs = 2
    /\ at_start.progress.exists
    /\ ~IsInt(at_start.progress.text)
    /\ start_index = 0
    /\ pc = "attempt"

\* The link types of a list, where a link type is first seen, and the rank
\* that the folder name of a link type starts with.
Keys(list) == {LinkType(list[k]) : k \in {n \in 1..Len(list) : HasLinkType(list[n])}}
FirstSeen(list, key) ==
    CHOOSE k \in 1..Len(list) :
        /\ HasLinkType(list[k]) /\ LinkType(list[k]) = key
        /\ \A n \in 1..(k - 1) : ~(HasLinkType(list[n]) /\ LinkType(list[n]) = key)
Rank(key) == IntOf(SubSeq(MappingGet(folder_mapping, key), 1, 3))

\* C11: every URL with a '/' that is not its last character has exactly one
\* key in the mapping, the URL cut after its last '/'; the mapping has the
\* link types of the list as its keys and nothing else; the ranks of the k
\* keys are the numbers 1..k, each once; a key with a higher count has a lower
\* rank, and of two keys with the same count the one seen first in the list
\* has the lower rank.
C11_Ranks ==
    pc = "classified" =>
        /\ \A k \in 1..Len(urls) :
              HasLinkType(urls[k]) =>
                 /\ Cardinality({m \in folder_mapping : m[1] = LinkType(urls[k])}) = 1
                 /\ LinkType(urls[k]) \o UrlSlug(urls[k]) = urls[k]
                 /\ Last(LinkType(urls[k])) = "/"
                 /\ UrlSlug(urls[k]) # <<>>
                 /\ \A n \in 1..Len(UrlSlug(urls[k])) : UrlSlug(urls[k])[n] # "/"
        /\ {m[1] : m \in folder_mapping} = Keys(urls)
        /\ Cardinality(folder_mapping) = Cardinality(Keys(urls))
        /\ \A r \in 1..Cardinality(Keys(urls)) :
              Cardinality({key \in Keys(urls) : Rank(key) = r}) = 1
        /\ \A a, b \in Keys(urls) :
              /\ LinkTypeCount(urls, a) > LinkTypeCount(urls, b) => Rank(a) < Rank(b)
              /\ (/\ LinkTypeCount(urls, a) = LinkTypeCount(urls, b)
                  /\ FirstSeen(urls, a) < FirstSeen(urls, b)) => Rank(a) < Rank(b)

\* Three URLs: the link type seen second has two of them and the first rank.
C11_Witness ==
    /\ pc = "classified"
    /\ urls = <<UrlP, UrlQ, UrlR>>
    /\ Rank(LinkType(UrlQ)) = 1
    /\ Rank(LinkType(UrlP)) = 2

\* The URL file is missing or has no line that is not blank.
NoInput == ~input_file.exists \/ NonBlank(input_file.lines) = <<>>
Effects == <<progress_file, error_404_file, redirect_file, dirs, files>>

\* A run that starts without input ends at once and changes no file or folder.
C12_Start ==
    (runs' = runs + 1 /\ NoInput) =>
        /\ pc' = "exited"
        /\ UNCHANGED Effects
        /\ gets' = 0
\* An ended run does nothing more: the next change is made by the next run.
C12_After == (pc = "exited" /\ runs' = runs) => UNCHANGED Effects
\* Such a run has sent no GET, taken no URL and written no progress.
C12_Exited ==
    pc = "exited" =>
        /\ NoInput
        /\ gets = 0
        /\ last_get = -1
        /\ saves = <<>>
        /\ DOMAIN outcome = {}
        /\ progress_file = at_start.progress
        /\ files = at_start.files
        /\ error_404_file = at_start.error_404
        /\ redirect_file = at_start.redirect

\* C12: a run that finds the URL file missing or without a non-blank line
\* ends before the loop, whatever the answer to the resume prompt was: it sends
\* no GET, makes no folder and no file, appends to neither log, and neither
\* writes nor removes the progress file.
C12_NoSideEffects == [][C12_Start /\ C12_After]_vars /\ []C12_Exited

\* A run that declined the resume it was offered and found the URL file gone.
C12_Witness ==
    /\ pc = "exited"
    /\ ~input_file.exists
    /\ prompted
    /\ resume_choice = "n"
    /\ progress_file.exists
    /\ dirs # {}

\* Were the process stopped now and the resume accepted by the next run, the
\* only URL this run has taken that the next run would take again is the one
\* in hand.
C13_AtStop ==
    (pc \in Running /\ ProgressReadable) =>
        \A j \in DOMAIN outcome : (Taken(j) /\ j >= ResumeIndex) => j = i
\* A stop leaves the files as they are, and the run that accepts the resume
\* after it starts right above the marker.
C13_Resume ==
    /\ (pc \in Running /\ pc' = "crashed") => UNCHANGED fs
    /\ (pc = "crashed" /\ runs' = runs + 1 /\ resume_choice' = "y") =>
          /\ ProgressReadable
          /\ start_index' = last_completed_index + 1
          /\ pc' = "loop" => i' = start_index'
\* A run that accepted the resume takes and requests no URL at or below the
\* marker it found.
C13_AboveMarker ==
    (prompted /\ resume_choice = "y") =>
        /\ start_index = IntOf(at_start.progress.text) + 1
        /\ pc \in Running => i >= start_index
        /\ last_get = -1 \/ last_get >= start_index
        /\ \A j \in DOMAIN outcome :
              j <= IntOf(at_start.progress.text) => (outcome[j] = "none" /\ ~Taken(j))

\* C13: after a stop of the process at any point, a run that accepts the
\* resume takes again at most one of the URLs the stopped run had taken, the
\* one in hand at the stop, and requests no URL at or below the marker.
C13_RedoAtMostOne == []C13_AtStop /\ [][C13_Resume]_vars /\ []C13_AboveMarker

\* The second of two URLs was in the redirect log but not in the progress file
\* when the process was stopped; the resumed run has requested it again.
C13_Witness ==
    /\ runs = 2
    /\ resume_choice = "y"
    /\ start_index = 1
    /\ Len(urls) = 2
    /\ at_start.redirect = <<urls[2]>>
    /\ redirect_file = <<urls[2], urls[2]>>

IsPrefix(s, t) == Len(s) <= Len(t) /\ SubSeq(t, 1, Len(s)) = s

\* Every step leaves each log as it is or longer by lines at its end, and a
\* GET answered 404 or with a redirect loop adds the URL as one line.
C14_Step ==
    /\ IsPrefix(error_404_file, error_404_file')
    /\ IsPrefix(redirect_file, redirect_file')
    /\ Len(error_404_file') <= Len(error_404_file) + 1
    /\ Len(redirect_file') <= Len(redirect_file) + 1
    /\ (gets' = gets + 1 /\ Last(cur'.resps) = "404") =>
          error_404_file' = Append(error_404_file, urls[i + 1])
    /\ (gets' = gets + 1 /\ Last(cur'.resps) = "redirect") =>
          redirect_file' = Append(redirect_file, urls[i + 1])

\* C14: the 404 log and the redirect log only grow at their end, in every
\* step of every run: starting a run (resume accepted or declined), natural
\* completion, a fatal halt and a stop of the process leave them as they are.
C14_AppendOnly == [][C14_Step]_vars

\* A run that declined the resume has completed; the logs of the earlier run
\* are still there, each with a line of this run after them.
C14_Witness ==
    /\ runs = 2
    /\ resume_choice = "n"
    /\ pc = "complete"
    /\ at_start.error_404 # <<>>
    /\ at_start.redirect # <<>>
    /\ Len(error_404_file) > Len(at_start.error_404)
    /\ Len(redirect_file) > Len(at_start.redirect)

\* The six outcomes of the data model (PermanentFailure is NotFound or
\* RedirectLoop).
Outcomes == NonFatal \cup {"FatalFailure"}
Ended == {"halted", "complete"}

\* C15 as stated: when a run has ended, every URL of the list has one of the
\* outcomes, whatever the start index and whether or not the run was halted.
C15_Original ==
    pc \in Ended => \A j \in DOMAIN outcome : outcome[j] \in Outcomes

\* The outcomes of a run that has ended.
C15_AtEnd ==
    pc \in Ended =>
        /\ start_index <= i
        /\ i <= Len(urls)
        /\ (pc = "complete") = (i = Len(urls))
        /\ \A j \in DOMAIN outcome :
              /\ j < start_index => outcome[j] = "none"
              /\ (start_index <= j /\ j < i) => outcome[j] \in NonFatal
              /\ j = i => outcome[j] = "FatalFailure"
              /\ j > i => outcome[j] = "none"
\* An outcome, once given, stays as it is until the next run starts.
C15_Once ==
    runs' = runs =>
        \A j \in DOMAIN outcome : outcome[j] # "none" => outcome'[j] = outcome[j]

\* C15, amended: a run gives exactly one outcome to every URL from its start
\* index up to the URL it is halted at, or up to the end of the list when it
\* is not halted; the URLs below the start index of a resumed run and the
\* URLs after a fatal failure get no outcome in that run.
C15_Amended == []C15_AtEnd /\ [][C15_Once]_vars

\* A run over two URLs that was halted at the first: the second has no outcome.
C15_Witness ==
    /\ pc = "halted"
    /\ Len(urls) = 2
    /\ outcome[0] = "FatalFailure"
    /\ outcome[1] = "none"

\* C16: whenever the progress file holds a marker m, at any point of any
\* sequence of runs over the same list (with stops of the process and
\* declined resumes), m is an index of the list and every URL at or below m
\* was given a non-fatal outcome by some run, so that a resume at m + 1 passes
\* over no URL that was never processed.
C16_MarkerSound ==
    ProgressReadable =>
        /\ 0 <= last_completed_index
        /\ last_completed_index < Len(InputUrls)
        /\ \A j \in 0..last_completed_index : j \in ever

\* A run that declined the resume is at work on the first of two URLs while
\* the progress file still holds the marker 1 of the stopped run before it.
C16_Witness ==
    /\ runs = 2
    /\ resume_choice = "n"
    /\ pc = "attempt"
    /\ i = 0
    /\ ProgressReadable
    /\ last_completed_index = 1
    /\ Len(InputUrls) = 2

\* C17: an error that is no request error (the folder cannot be made, the
\* body cannot be written, the operator interrupts), raised for the URL at
\* index j before it is flagged processed, goes to the finally block with the
\* URL not flagged, and is dropped there: the run is halted at j as after a
\* fatal failure, with no error in flight, no URL taken or requested after j,
\* j not written to the progress file, and the progress file not removed (it
\* holds what it held before URL j).
C17_ErrorHalts ==
    /\ raised => (pc = "finally" /\ ~processed)
    /\ \A j \in DOMAIN outcome :
          outcome[j] = "Aborted" =>
              /\ pc = "halted"
              /\ ~raised
              /\ i = j
              /\ last_get <= j
              /\ \A k \in DOMAIN outcome : k > j => outcome[k] = "none"
              /\ \A n \in 1..Len(saves) : saves[n] # Str(j)
              /\ ~Cleared
              /\ ProgressAsLeft

\* The body of the second of two URLs could not be written: the run is halted
\* there, and the progress file holds the index of the first.
C17_Witness ==
    /\ pc = "halted"
    /\ Len(urls) = 2
    /\ i = 1
    /\ outcome[1] = "Aborted"
    /\ cur.resps = <<"ok">>
    /\ progress_file = [exists |-> TRUE, text |-> Str(0)]

\* The content of the file at a path.
ContentAt(path) == (CHOOSE f \in files : f[1] = path)[2]
Bodies == {Body(u) : u \in Urls}

\* C18: across runs with stops of the process at any point, every file under
\* the output folder holds the whole body of a 2xx answer (but for the one the
\* process is writing at this moment), and a URL is given SkippedExisting only
\* for a file that holds such a body.
C18_FilesComplete ==
    /\ \A f \in files : (pc = "write" /\ f[1] = TargetFile) \/ f[2] \in Bodies
    /\ \A j \in DOMAIN outcome :
          outcome[j] = "SkippedExisting" => ContentAt(TargetAt(j)) \in Bodies

\* C19: no URL is ever given the outcome SkippedNoBucket.  Whenever the loop
\* is about to take a URL (the first one too), the mapping is the one built
\* from the whole list, and every URL of the list with a '/' that is not its
\* last character has a folder name in it that is not empty (the folder is
\* made when the URL is taken); a URL that is being requested has found its
\* folder name.
C19_NoBucketUnreachable ==
    /\ \A j \in DOMAIN outcome : outcome[j] # "SkippedNoBucket"
    /\ pc = "loop" =>
          /\ folder_mapping = FolderMapping(urls)
          /\ \A j \in DOMAIN outcome :
                HasLinkType(urls[j + 1]) =>
                    LET name == MappingGet(folder_mapping, LinkType(urls[j + 1]))
                    IN  /\ name # None
                        /\ Len(name) >= 4
                        /\ Taken(j) => FolderPath(name) \in dirs
    /\ pc \in {"attempt", "write"} => TargetFolder # None

\* The second of two URLs of different link types has passed the check for a
\* link type and the lookup, and is being requested.
C19_Witness ==
    /\ pc = "attempt"
    /\ i = 1
    /\ Len(urls) = 2
    /\ LinkType(urls[1]) # LinkType(urls[2])
    /\ TargetFolder # None
    /\ outcome[0] = "Saved"

\* A run has sent at most 3 GETs for each URL from its start index on; when
\* it has completed, every URL from the start index on has a non-fatal
\* outcome and the progress file is gone; when it is halted, it is so at the
\* first URL that used up its attempts.
C20_Bound ==
    pc \in Running \cup Ended =>
        /\ gets <= 3 * (Len(urls) - start_index)
        /\ pc = "complete" =>
              /\ \A j \in DOMAIN outcome : j >= start_index => outcome[j] \in NonFatal
              /\ ~progress_file.exists
        /\ pc = "halted" =>
              /\ outcome[i] = "FatalFailure"
              /\ cur.resps = Exhausted
              /\ \A j \in DOMAIN outcome :
                    (start_index <= j /\ j < i) => outcome[j] \in NonFatal

\* C20: every run ends, given that every GET returns or fails: after at most
\* 3 * (N - s) GETs for a list of N URLs and the start index s, either by
\* natural completion or by a halt at the first URL that used up its attempts.
C20_Terminates == []C20_Bound /\ ((pc \in Running) ~> (pc \in Ended))

\* A run over two URLs from index 0 that has sent six GETs and is halted.
C20_Witness ==
    /\ pc = "halted"
    /\ Len(urls) = 2
    /\ start_index = 0
    /\ gets = 6

====
